---- MODULE Spec2Model ----
(***************************************************************************)
(* State-machine model of the Soroban contract SubscriptionRenewalContract *)
(* (contracts/contracts/subscription_renewal/src/lib.rs).                  *)
(*                                                                         *)
(* Persistent storage is modelled as one finite map per key type; a key    *)
(* that was never set is outside the map's DOMAIN.  Every entry point is   *)
(* one action.  A panic! inside an entry point traps the invocation: the   *)
(* host discards every storage write the invocation made, so an aborted    *)
(* call leaves the stores as they were at entry.  The variable `last`      *)
(* records the most recent call and how it ended.  Two history variables   *)
(* serve the specifications that track them: `ever_failed` (SpecLifecycle) *)
(* is the set of subscriptions whose record has been in state Failed since *)
(* init_sub stored it, `billed` (SpecLifecycle) holds, per subscription id, *)
(* the cycle ids of the renewals that succeeded and the most recent one,   *)
(* `run` (SpecRetry) counts the failing renewals of a retry run.  Callers  *)
(* hold the credentials require_auth asks for (the tests' mock_all_auths): *)
(* an unauthorised call traps before any write.                            *)
(*                                                                         *)
(* u32 values are held as the 32-bit words the contract holds: a value     *)
(* below 2^31 is itself, a value v from 2^31 on is the integer v - 2^32    *)
(* (the word read as two's complement), so 2^32 - 1 is -1.  Whether a u32  *)
(* addition that overflows traps or wraps is a property of the build       *)
(* profile (overflow-checks); `overflow_checks` holds it.                  *)
(***************************************************************************)
EXTENDS Integers, FiniteSets, Sequences, TLC

VARIABLES admin, paused, subs, approvals, cycles, user_cap, user_spent,
          ledger, last, ever_failed, run, billed, overflow_checks

vars == <<admin, paused, subs, approvals, cycles, user_cap, user_spent,
          ledger, last, ever_failed, run, billed, overflow_checks>>

---------------------------------------------------------------------------
(* Bounds of the model.                                                    *)

MaxLedger == 1          \* the ledger sequence number ranges over 0..MaxLedger
MaxFailures == 1        \* renew is explored while failure_count <= MaxFailures
MaxRunRetries == 2      \* max_retries of the failing runs of SpecRetry

SubIds == {1}
ApprovalIds == {1}
Owners == {"alice"}
Admins == {"admin"}
Amounts == {1, 2}               \* renew's amount
MaxSpends == {1, 2}             \* approve_renewal's max_spend
Expiries == {0, 1}              \* approve_renewal's expires_at
SpendingCaps == {0, 1}          \* init_sub's spending_cap (0 = unlimited)
UserCaps == {0, 2}              \* set_user_cap's cap (0 = unlimited)
RetryLimits == {0, 1}           \* renew's max_retries
Cooldowns == {0, 1}             \* renew's cooldown_ledgers
CycleIds == {1, 2}              \* renew's cycle_id

---------------------------------------------------------------------------
(* Storage helpers.                                                        *)

\* storage().persistent().has(key)
has(map, key) == key \in DOMAIN map

\* storage().persistent().set(key, value)
set(map, key, value) == [k \in DOMAIN map \cup {key} |->
                            IF k = key THEN value ELSE map[k]]

\* storage().persistent().get(key).unwrap_or(default)
get_or(map, key, default) == IF has(map, key) THEN map[key] ELSE default

\* struct ApprovalKey { sub_id, approval_id }
ApprovalKey(sub_id, approval_id) == <<sub_id, approval_id>>

\* The persistent stores an invocation of renew reads and writes.
store == [subs |-> subs, approvals |-> approvals, cycles |-> cycles,
          user_cap |-> user_cap, user_spent |-> user_spent]

\* u32 arithmetic on 32-bit words (a word w < 0 stands for w + 2^32).
\* u32_lt is the unsigned comparison a < b.
u32_lt(a, b) == IF (a < 0) = (b < 0) THEN a < b ELSE a >= 0

\* The sum a + b reaches 2^32: never for two values below 2^31, always for
\* two values from 2^31 on, and otherwise when the words add up to >= 0.
u32_add_overflows(a, b) ==
    IF a >= 0 /\ b >= 0 THEN FALSE
    ELSE IF a < 0 /\ b < 0 THEN TRUE
    ELSE a + b >= 0

\* The word of (a + b) mod 2^32.  2^31 is written 2147483647 + 1 in two
\* steps so that no intermediate value leaves the 32-bit range.
u32_wrapping_add(a, b) ==
    IF (a < 0) # (b < 0) THEN a + b
    ELSE IF a < 0
      THEN LET y == ((a + 2147483647) + 1) + b
           IN IF y >= 0 THEN (y - 2147483647) - 1 ELSE (y + 2147483647) + 1
    ELSE LET y == a + ((b - 2147483647) - 1)
         IN IF y >= 0 THEN (y - 2147483647) - 1 ELSE a + b

\* The Paused flag read as if it had never been set.
is_paused_unset == FALSE

\* pub fn is_paused: the Paused flag, false when never set.
is_paused == paused

\* pub fn get_user_cap / get_user_spent
get_user_cap(caps, user) == get_or(caps, user, 0)
get_user_spent(spent, user) == get_or(spent, user, 0)

---------------------------------------------------------------------------
(* The record of the most recent step: the entry point called and how it   *)
(* ended (outcome "ok", or the name of the panic), the subscription and    *)
(* approval it named and, for a renew that returned, its arguments and the *)
(* failure_count it found.                                                 *)

NoCall == [op |-> "none", outcome |-> "none", ret |-> FALSE, reason |-> 0,
           sub_id |-> 0, approval_id |-> 0, amount |-> 0, max_retries |-> 0,
           cooldown_ledgers |-> 0, cycle_id |-> 0, succeed |-> FALSE,
           prev_failures |-> 0]

Call(op, outcome) == [NoCall EXCEPT !.op = op, !.outcome = outcome]

---------------------------------------------------------------------------
InitStores ==
    /\ admin = "none"
    /\ paused = FALSE
    /\ subs = <<>>
    /\ approvals = <<>>
    /\ cycles = <<>>
    /\ user_cap = <<>>
    /\ user_spent = <<>>
    /\ ledger = 0
    /\ last = NoCall
    /\ ever_failed = {}
    /\ billed = [ever |-> {}, latest |-> <<>>]

\* No sum of Spec, SpecRetry or SpecLifecycle reaches 2^32 (their ledgers and
\* cooldowns are small), so the build profile makes no difference to them;
\* SpecCooldown starts from either profile.
Init ==
    /\ InitStores
    /\ run = [n |-> 0, len |-> 0]
    /\ overflow_checks = TRUE


---------------------------------------------------------------------------
(* Admin / pause management.                                               *)

\* fn require_admin: the admin must be stored; it authorises the call.
require_admin ==
    IF admin = "none" THEN "NotInitialized" ELSE "ok"

\* pub fn init(admin)
init(a) ==
    /\ IF admin # "none"
         THEN /\ last' = Call("init", "AlreadyInitialized")
              /\ UNCHANGED <<admin, paused>>
         ELSE /\ admin' = a
              /\ paused' = FALSE
              /\ last' = Call("init", "ok")
    /\ UNCHANGED <<subs, approvals, cycles, user_cap, user_spent, ledger,
                   ever_failed, run, billed, overflow_checks>>

\* pub fn set_paused(paused)
set_paused(p) ==
    /\ LET r == require_admin IN
         /\ paused' = IF r = "ok" THEN p ELSE paused
         /\ last' = Call("set_paused", r)
    /\ UNCHANGED <<admin, subs, approvals, cycles, user_cap, user_spent,
                   ledger, ever_failed, run, billed,
                   overflow_checks>>

---------------------------------------------------------------------------
(* Subscription logic.                                                     *)

\* struct SubscriptionData as init_sub builds it.  merchant, amount,
\* frequency and integrity_hash are stored and never read: they are left out.
NewSubscription(owner, spending_cap) ==
    [owner |-> owner, spending_cap |-> spending_cap, state |-> "Active",
     failure_count |-> 0, last_attempt_ledger |-> 0]

\* One call of init_sub: it stores the record whether or not sub_id exists.
init_sub_step(owner, spending_cap, sub_id) ==
    /\ subs' = set(subs, sub_id, NewSubscription(owner, spending_cap))
    /\ last' = [Call("init_sub", "ok") EXCEPT !.sub_id = sub_id]
    /\ UNCHANGED <<admin, paused, approvals, cycles, user_cap, user_spent,
                   ledger, run, billed, overflow_checks>>

\* pub fn init_sub(owner, merchant, amount, frequency, spending_cap, sub_id)
init_sub(owner, spending_cap, sub_id) ==
    /\ init_sub_step(owner, spending_cap, sub_id)
    /\ UNCHANGED ever_failed

\* pub fn set_user_cap(user, cap)
set_user_cap(user, cap) ==
    /\ LET r == require_admin IN
         /\ user_cap' = IF r = "ok" THEN set(user_cap, user, cap) ELSE user_cap
         /\ last' = Call("set_user_cap", r)
    /\ UNCHANGED <<admin, paused, subs, approvals, cycles, user_spent,
                   ledger, ever_failed, run, billed,
                   overflow_checks>>

\* cancel_sub's checks without the test for a cancelled subscription.
cancel_outcome_idempotent(sub_id) ==
    IF ~has(subs, sub_id) THEN "NotFound" ELSE "ok"

\* The outcome of cancel_sub's checks.
cancel_outcome(sub_id) ==
    IF ~has(subs, sub_id) THEN "NotFound"
    ELSE IF subs[sub_id].state = "Cancelled" THEN "AlreadyCancelled"
    ELSE "ok"

\* pub fn cancel_sub(sub_id)
cancel_sub(sub_id) ==
    /\ LET r == cancel_outcome(sub_id) IN
         /\ subs' = IF r = "ok"
                      THEN set(subs, sub_id,
                               [subs[sub_id] EXCEPT !.state = "Cancelled"])
                      ELSE subs
         /\ last' = [Call("cancel_sub", r) EXCEPT !.sub_id = sub_id]
    /\ UNCHANGED <<admin, paused, approvals, cycles, user_cap, user_spent,
                   ledger, ever_failed, run, billed,
                   overflow_checks>>

---------------------------------------------------------------------------
(* Approval management.                                                    *)

\* struct RenewalApproval as approve_renewal builds it.
NewApproval(sub_id, max_spend, expires_at) ==
    [sub_id |-> sub_id, max_spend |-> max_spend, expires_at |-> expires_at,
     used |-> FALSE]

\* The outcome of approve_renewal's checks.
approve_outcome(sub_id) ==
    IF ~has(subs, sub_id) THEN "NotFound" ELSE "ok"

\* pub fn approve_renewal(sub_id, approval_id, max_spend, expires_at)
approve_renewal(sub_id, approval_id, max_spend, expires_at) ==
    /\ LET r == approve_outcome(sub_id) IN
         /\ approvals' = IF r = "ok"
                           THEN set(approvals, ApprovalKey(sub_id, approval_id),
                                    NewApproval(sub_id, max_spend, expires_at))
                           ELSE approvals
         /\ last' = [Call("approve_renewal", r) EXCEPT
                        !.sub_id = sub_id, !.approval_id = approval_id]
    /\ UNCHANGED <<admin, paused, subs, cycles, user_cap, user_spent,
                   ledger, ever_failed, run, billed,
                   overflow_checks>>

\* consume_approval with the expiry check moved ahead of the used check.
consume_approval_expiry_first(apps, current_ledger, sub_id, approval_id, amount) ==
    LET key == ApprovalKey(sub_id, approval_id) IN
    IF ~has(apps, key)
      THEN [ok |-> FALSE, reason |-> 4, approvals |-> apps]
    ELSE IF current_ledger > apps[key].expires_at
      THEN [ok |-> FALSE, reason |-> 1, approvals |-> apps]
    ELSE IF apps[key].used
      THEN [ok |-> FALSE, reason |-> 2, approvals |-> apps]
    ELSE IF amount > apps[key].max_spend
      THEN [ok |-> FALSE, reason |-> 3, approvals |-> apps]
    ELSE [ok |-> TRUE, reason |-> 0,
          approvals |-> set(apps, key, [apps[key] EXCEPT !.used = TRUE])]

\* consume_approval with an approval expiring at the ledger it names.
consume_approval_exclusive(apps, current_ledger, sub_id, approval_id, amount) ==
    LET key == ApprovalKey(sub_id, approval_id) IN
    IF ~has(apps, key)
      THEN [ok |-> FALSE, reason |-> 4, approvals |-> apps]
    ELSE IF apps[key].used
      THEN [ok |-> FALSE, reason |-> 2, approvals |-> apps]
    ELSE IF current_ledger >= apps[key].expires_at
      THEN [ok |-> FALSE, reason |-> 1, approvals |-> apps]
    ELSE IF amount > apps[key].max_spend
      THEN [ok |-> FALSE, reason |-> 3, approvals |-> apps]
    ELSE [ok |-> TRUE, reason |-> 0,
          approvals |-> set(apps, key, [apps[key] EXCEPT !.used = TRUE])]

\* fn consume_approval(env, sub_id, approval_id, amount) -> bool, with the
\* reason code of the ApprovalRejected event it publishes (0 when it returns
\* true) and the approval store as it leaves it.
consume_approval(apps, current_ledger, sub_id, approval_id, amount) ==
    LET key == ApprovalKey(sub_id, approval_id) IN
    IF ~has(apps, key)
      THEN [ok |-> FALSE, reason |-> 4, approvals |-> apps]
    ELSE IF apps[key].used
      THEN [ok |-> FALSE, reason |-> 2, approvals |-> apps]
    ELSE IF current_ledger > apps[key].expires_at
      THEN [ok |-> FALSE, reason |-> 1, approvals |-> apps]
    ELSE IF amount > apps[key].max_spend
      THEN [ok |-> FALSE, reason |-> 3, approvals |-> apps]
    ELSE [ok |-> TRUE, reason |-> 0,
          approvals |-> set(apps, key, [apps[key] EXCEPT !.used = TRUE])]

---------------------------------------------------------------------------
(* Renewal logic.                                                          *)

\* Guard 5 of renew, `failure_count > 0 && current_ledger <
\* last_attempt_ledger + cooldown_ledgers`: && evaluates the sum only when
\* failure_count > 0; the sum is a u32 addition, which traps when it
\* overflows in a build with overflow checks and wraps in one without.
cooldown_guard(data, current_ledger, cooldown_ledgers) ==
    IF data.failure_count = 0 THEN "pass"
    ELSE IF u32_add_overflows(data.last_attempt_ledger, cooldown_ledgers)
            /\ overflow_checks
      THEN "ArithmeticOverflow"
    ELSE IF u32_lt(current_ledger,
                   u32_wrapping_add(data.last_attempt_ledger, cooldown_ledgers))
      THEN "CooldownActive"
    ELSE "pass"

\* Guards 3-5 with the cooldown check moved ahead of the cycle guard.
state_guards_cooldown_first(data, cyc, current_ledger, sub_id, cooldown_ledgers, cycle_id) ==
    IF data.state = "Failed" THEN "TerminalState"
    ELSE IF cooldown_guard(data, current_ledger, cooldown_ledgers) # "pass"
      THEN cooldown_guard(data, current_ledger, cooldown_ledgers)
    ELSE IF has(cyc, sub_id) /\ cycle_id = cyc[sub_id] THEN "DuplicateCycle"
    ELSE "pass"

\* Guards 3-5 of renew: failed state, duplicate cycle, cooldown.
state_guards(data, cyc, current_ledger, sub_id, cooldown_ledgers, cycle_id) ==
    IF data.state = "Failed" THEN "TerminalState"
    ELSE IF has(cyc, sub_id) /\ cycle_id = cyc[sub_id] THEN "DuplicateCycle"
    ELSE cooldown_guard(data, current_ledger, cooldown_ledgers)

\* Guards 7-8 with the global check comparing the spent amount alone.
cap_guards_spent_only(data, caps, spent, amount) ==
    IF data.spending_cap > 0 /\ amount > data.spending_cap
      THEN "SubscriptionCapExceeded"
    ELSE LET global_cap == get_user_cap(caps, data.owner) IN
         IF /\ global_cap > 0
            /\ get_user_spent(spent, data.owner) > global_cap
           THEN "GlobalCapExceeded"
         ELSE "pass"

\* Guards 7-8 without the global check.
cap_guards_sub_only(data, caps, spent, amount) ==
    IF data.spending_cap > 0 /\ amount > data.spending_cap
      THEN "SubscriptionCapExceeded"
    ELSE "pass"

\* Guards 7-8 rejecting an amount that reaches the cap.
cap_guards_at_cap(data, caps, spent, amount) ==
    IF data.spending_cap > 0 /\ amount >= data.spending_cap
      THEN "SubscriptionCapExceeded"
    ELSE LET global_cap == get_user_cap(caps, data.owner) IN
         IF /\ global_cap > 0
            /\ get_user_spent(spent, data.owner) + amount >= global_cap
           THEN "GlobalCapExceeded"
         ELSE "pass"

\* Guards 7-8 of renew: per-subscription cap, global user cap.
cap_guards(data, caps, spent, amount) ==
    IF data.spending_cap > 0 /\ amount > data.spending_cap
      THEN "SubscriptionCapExceeded"
    ELSE LET global_cap == get_user_cap(caps, data.owner) IN
         IF /\ global_cap > 0
            /\ get_user_spent(spent, data.owner) + amount > global_cap
           THEN "GlobalCapExceeded"
         ELSE "pass"

\* The success branch without the reset of failure_count.
success_data_keep_failures(data, current_ledger) ==
    [data EXCEPT !.state = "Active", !.last_attempt_ledger = current_ledger]

\* The subscription record the success branch stores.
success_data(data, current_ledger) ==
    [data EXCEPT !.state = "Active", !.failure_count = 0,
                 !.last_attempt_ledger = current_ledger]

\* The failure branch comparing with >= instead of >.
failure_data_at_limit(data, max_retries, current_ledger) ==
    LET failure_count == data.failure_count + 1 IN
    [data EXCEPT !.failure_count = failure_count,
                 !.last_attempt_ledger = current_ledger,
                 !.state = IF failure_count >= max_retries
                             THEN "Failed" ELSE "Retrying"]

\* The failure branch comparing the count as it was before the increment.
failure_data_stale_count(data, max_retries, current_ledger) ==
    [data EXCEPT !.failure_count = data.failure_count + 1,
                 !.last_attempt_ledger = current_ledger,
                 !.state = IF data.failure_count > max_retries
                             THEN "Failed" ELSE "Retrying"]

\* The failure branch without the increment of failure_count.
failure_data_no_count(data, max_retries, current_ledger) ==
    [data EXCEPT !.last_attempt_ledger = current_ledger,
                 !.state = IF data.failure_count + 1 > max_retries
                             THEN "Failed" ELSE "Retrying"]

\* The subscription record the failure branch stores.
failure_data(data, max_retries, current_ledger) ==
    LET failure_count == data.failure_count + 1 IN
    [data EXCEPT !.failure_count = failure_count,
                 !.last_attempt_ledger = current_ledger,
                 !.state = IF failure_count > max_retries
                             THEN "Failed" ELSE "Retrying"]

\* The success branch without the write of the cycle record.
on_success_keep_cycle(st, data, current_ledger, sub_id, amount, cycle_id) ==
    LET global_cap == get_user_cap(st.user_cap, data.owner) IN
    [st EXCEPT
       !.subs = set(@, sub_id, success_data(data, current_ledger)),
       !.user_spent = IF global_cap > 0
                        THEN set(@, data.owner,
                                 get_user_spent(@, data.owner) + amount)
                        ELSE @]

\* The success branch adding to the owner's spent whatever the cap.
on_success_always_accrues(st, data, current_ledger, sub_id, amount, cycle_id) ==
    [st EXCEPT
       !.subs = set(@, sub_id, success_data(data, current_ledger)),
       !.cycles = set(@, sub_id, cycle_id),
       !.user_spent = set(@, data.owner,
                          get_user_spent(@, data.owner) + amount)]

\* The stores after the success branch of renew.
on_success(st, data, current_ledger, sub_id, amount, cycle_id) ==
    LET global_cap == get_user_cap(st.user_cap, data.owner) IN
    [st EXCEPT
       !.subs = set(@, sub_id, success_data(data, current_ledger)),
       !.cycles = set(@, sub_id, cycle_id),
       !.user_spent = IF global_cap > 0
                        THEN set(@, data.owner,
                                 get_user_spent(@, data.owner) + amount)
                        ELSE @]

\* The stores after the failure branch of renew.
on_failure(st, data, current_ledger, sub_id, max_retries) ==
    [st EXCEPT
       !.subs = set(@, sub_id, failure_data(data, max_retries, current_ledger))]

\* How an invocation of renew ends: by a panic (outcome names it) or by
\* returning ret (outcome "ok"), with the stores as the invocation wrote them.
Panic(outcome, st) ==
    [outcome |-> outcome, ret |-> FALSE, reason |-> 0, store |-> st]
Return(ret, st) ==
    [outcome |-> "ok", ret |-> ret, reason |-> 0, store |-> st]

\* The body of renew, statement by statement.
renew_body(st, is_p, current_ledger, sub_id, approval_id, amount, max_retries, cooldown_ledgers, cycle_id, succeed) ==
    IF is_p THEN Panic("ProtocolPaused", st)
    ELSE IF ~has(st.subs, sub_id) THEN Panic("NotFound", st)
    ELSE
      LET data == st.subs[sub_id]
          g == state_guards(data, st.cycles, current_ledger, sub_id,
                            cooldown_ledgers, cycle_id)
          c == consume_approval(st.approvals, current_ledger, sub_id,
                                approval_id, amount)
          st6 == [st EXCEPT !.approvals = c.approvals]
          caps == cap_guards(data, st6.user_cap, st6.user_spent, amount)
      IN IF g # "pass" THEN Panic(g, st)
         ELSE IF ~c.ok
           THEN [Panic("InvalidApproval", st6) EXCEPT !.reason = c.reason]
         ELSE IF caps # "pass" THEN Panic(caps, st6)
         ELSE IF succeed
           THEN Return(TRUE, on_success(st6, data, current_ledger, sub_id,
                                        amount, cycle_id))
         ELSE Return(FALSE, on_failure(st6, data, current_ledger, sub_id,
                                       max_retries))

\* An invocation whose writes are kept when it panics.
renew_invoke_commit(st, is_p, current_ledger, sub_id, approval_id, amount, max_retries, cooldown_ledgers, cycle_id, succeed) ==
    renew_body(st, is_p, current_ledger, sub_id, approval_id, amount,
               max_retries, cooldown_ledgers, cycle_id, succeed)

\* An invocation of renew as the host runs it: a panic traps the invocation
\* and the host discards the writes it made.
renew_invoke(st, is_p, current_ledger, sub_id, approval_id, amount, max_retries, cooldown_ledgers, cycle_id, succeed) ==
    LET r == renew_body(st, is_p, current_ledger, sub_id, approval_id, amount,
                        max_retries, cooldown_ledgers, cycle_id, succeed)
    IN IF r.outcome = "ok" THEN r ELSE [r EXCEPT !.store = st]

\* One call of renew: the stores take the invocation's result and `last`
\* records the call.
renew_step(sub_id, approval_id, amount, max_retries, cooldown_ledgers, cycle_id, succeed) ==
    /\ \E r \in {renew_invoke(store, is_paused, ledger, sub_id, approval_id,
                              amount, max_retries, cooldown_ledgers, cycle_id,
                              succeed)} :
          /\ subs' = r.store.subs
          /\ approvals' = r.store.approvals
          /\ cycles' = r.store.cycles
          /\ user_cap' = r.store.user_cap
          /\ user_spent' = r.store.user_spent
          /\ last' = IF r.outcome = "ok"
                       THEN [op |-> "renew", outcome |-> r.outcome,
                             ret |-> r.ret, reason |-> r.reason,
                             sub_id |-> sub_id, approval_id |-> approval_id,
                             amount |-> amount, max_retries |-> max_retries,
                             cooldown_ledgers |-> cooldown_ledgers,
                             cycle_id |-> cycle_id, succeed |-> succeed,
                             prev_failures |-> subs[sub_id].failure_count]
                       ELSE [Call("renew", r.outcome) EXCEPT
                               !.reason = r.reason, !.sub_id = sub_id,
                               !.approval_id = approval_id]
    /\ UNCHANGED <<admin, paused, ledger, overflow_checks>>

\* pub fn renew(sub_id, approval_id, amount, max_retries, cooldown_ledgers,
\*              cycle_id, succeed) -> bool
renew(sub_id, approval_id, amount, max_retries, cooldown_ledgers, cycle_id, succeed) ==
    /\ has(subs, sub_id) => subs[sub_id].failure_count <= MaxFailures
    /\ renew_step(sub_id, approval_id, amount, max_retries, cooldown_ledgers,
                  cycle_id, succeed)
    /\ UNCHANGED <<ever_failed, run, billed>>

\* renew reads max_retries and succeed only after its guards: for a call the
\* guards reject, one value of each stands for all of them.
RetryInputs(s, a, amt, cd, cy) ==
    IF renew_invoke(store, is_paused, ledger, s, a, amt, 0, cd, cy,
                    FALSE).outcome = "ok"
      THEN RetryLimits \X BOOLEAN
      ELSE {<<0, FALSE>>}

\* env.ledger().sequence() grows between invocations.
ledger_advance ==
    /\ ledger < MaxLedger
    /\ ledger' = ledger + 1
    /\ last' = Call("ledger_advance", "ok")
    /\ UNCHANGED <<admin, paused, subs, approvals, cycles, user_cap,
                   user_spent, ever_failed, run, billed,
                   overflow_checks>>

---------------------------------------------------------------------------
Next ==
    \/ \E a \in Admins : init(a)
    \/ \E p \in BOOLEAN : set_paused(p)
    \/ \E o \in Owners, c \in SpendingCaps, s \in SubIds : init_sub(o, c, s)
    \/ \E u \in Owners, c \in UserCaps : set_user_cap(u, c)
    \/ \E s \in SubIds : cancel_sub(s)
    \/ \E s \in SubIds, a \in ApprovalIds, m \in MaxSpends, e \in Expiries :
          approve_renewal(s, a, m, e)
    \/ \E s \in SubIds, a \in ApprovalIds, amt \in Amounts, cd \in Cooldowns,
          cy \in CycleIds :
          \E in \in RetryInputs(s, a, amt, cd, cy) :
             renew(s, a, amt, in[1], cd, cy, in[2])
    \/ ledger_advance

Spec == Init /\ [][Next]_vars

---------------------------------------------------------------------------
(* Retry runs: one subscription, created once, whose every renew call uses *)
(* the same max_retries = run.n and succeed = false (test_retry_logic,     *)
(* test_zero_max_retries).  run.len counts the calls that passed the       *)
(* guards.  Approvals are issued and the ledger advances in between.       *)

RunSub == CHOOSE s \in SubIds : TRUE

InitRetry ==
    /\ InitStores
    /\ \E n \in 0..MaxRunRetries : run = [n |-> n, len |-> 0]
    /\ overflow_checks = TRUE

init_sub_once ==
    /\ ~has(subs, RunSub)
    /\ \E o \in Owners, c \in SpendingCaps : init_sub(o, c, RunSub)

renew_run ==
    \E a \in ApprovalIds, amt \in Amounts, cd \in Cooldowns, cy \in CycleIds :
       /\ renew_step(RunSub, a, amt, run.n, cd, cy, FALSE)
       /\ run' = IF last'.outcome = "ok"
                   THEN [run EXCEPT !.len = @ + 1] ELSE run
       /\ UNCHANGED <<ever_failed, billed>>

NextRetry ==
    \/ init_sub_once
    \/ \E a \in ApprovalIds, m \in MaxSpends, e \in Expiries :
          approve_renewal(RunSub, a, m, e)
    \/ renew_run
    \/ ledger_advance

SpecRetry == InitRetry /\ [][NextRetry]_vars

---------------------------------------------------------------------------
(* Subscription lifecycles: init_sub, approve_renewal, renew and cancel_sub *)
(* on a contract whose admin operations are not used, with ever_failed     *)
(* tracking the records that have been Failed.                             *)

init_sub_tracked ==
    \E o \in Owners, c \in SpendingCaps, s \in SubIds :
       /\ init_sub_step(o, c, s)
       /\ ever_failed' = ever_failed \ {s}

renew_tracked ==
    \E s \in SubIds, a \in ApprovalIds, amt \in Amounts, cd \in Cooldowns,
       cy \in CycleIds :
       \E in \in RetryInputs(s, a, amt, cd, cy) :
          /\ has(subs, s) => subs[s].failure_count <= MaxFailures
          /\ renew_step(s, a, amt, in[1], cd, cy, in[2])
          /\ ever_failed' = ever_failed \cup
                               {x \in DOMAIN subs' : subs'[x].state = "Failed"}
          /\ billed' = IF last'.outcome = "ok" /\ last'.ret
                         THEN [ever |-> billed.ever \cup {<<s, cy>>},
                               latest |-> set(billed.latest, s, cy)]
                         ELSE billed
          /\ UNCHANGED run

NextLifecycle ==
    \/ init_sub_tracked
    \/ \E s \in SubIds : cancel_sub(s)
    \/ \E s \in SubIds, a \in ApprovalIds, m \in MaxSpends, e \in Expiries :
          approve_renewal(s, a, m, e)
    \/ renew_tracked
    \/ ledger_advance

SpecLifecycle == Init /\ [][NextLifecycle]_vars

---------------------------------------------------------------------------
(* Cooldowns over the u32 range: init_sub, approve_renewal and renew on a  *)
(* contract built with or without overflow checks, renew's cooldown_ledgers *)
(* ranging over both ends of u32.                                          *)

U32_MAX == -1           \* the word of u32::MAX = 2^32 - 1

U32Cooldowns == {0, 1, U32_MAX - 1, U32_MAX}

InitCooldown ==
    /\ InitStores
    /\ run = [n |-> 0, len |-> 0]
    /\ overflow_checks \in BOOLEAN

renew_cooldown ==
    \E s \in SubIds, a \in ApprovalIds, amt \in Amounts, cd \in U32Cooldowns,
       cy \in CycleIds :
       \E in \in RetryInputs(s, a, amt, cd, cy) :
          renew(s, a, amt, in[1], cd, cy, in[2])

NextCooldown ==
    \/ \E o \in Owners, c \in SpendingCaps, s \in SubIds : init_sub(o, c, s)
    \/ \E s \in SubIds, a \in ApprovalIds, m \in MaxSpends, e \in Expiries :
          approve_renewal(s, a, m, e)
    \/ renew_cooldown
    \/ ledger_advance

SpecCooldown == InitCooldown /\ [][NextCooldown]_vars

---------------------------------------------------------------------------
(* Cap management: an initialised contract whose admin sets and resets the *)
(* owners' global caps, over more cap values than Spec, while              *)
(* subscriptions are created, approved and renewed.                        *)

CapUpdates == {0, 1, 2}

NextCaps ==
    \/ \E a \in Admins : init(a)
    \/ \E u \in Owners, c \in CapUpdates : set_user_cap(u, c)
    \/ \E o \in Owners, c \in SpendingCaps, s \in SubIds : init_sub(o, c, s)
    \/ \E s \in SubIds, a \in ApprovalIds, m \in MaxSpends, e \in Expiries :
          approve_renewal(s, a, m, e)
    \/ \E s \in SubIds, a \in ApprovalIds, amt \in Amounts, cd \in Cooldowns,
          cy \in CycleIds :
          \E in \in RetryInputs(s, a, amt, cd, cy) :
             renew(s, a, amt, in[1], cd, cy, in[2])

SpecCaps == Init /\ [][NextCaps]_vars

---------------------------------------------------------------------------
(* Properties.                                                             *)

\* The guards of renew in the documented order, each stated on its own over
\* the stored state and the arguments: guard i rejects the call.
Rejects(i, s, a, amt, cd, cy) ==
    CASE i = 1 -> paused
      [] i = 2 -> s \notin DOMAIN subs
      [] i = 3 -> s \in DOMAIN subs /\ subs[s].state = "Failed"
      [] i = 4 -> s \in DOMAIN cycles /\ cycles[s] = cy
      [] i = 5 -> /\ s \in DOMAIN subs
                  /\ subs[s].failure_count > 0
                  /\ ledger < subs[s].last_attempt_ledger + cd
      [] i = 6 -> \/ <<s, a>> \notin DOMAIN approvals
                  \/ approvals[<<s, a>>].used
                  \/ ledger > approvals[<<s, a>>].expires_at
                  \/ amt > approvals[<<s, a>>].max_spend
      [] i = 7 -> /\ s \in DOMAIN subs
                  /\ subs[s].spending_cap > 0
                  /\ amt > subs[s].spending_cap
      [] i = 8 -> /\ s \in DOMAIN subs
                  /\ subs[s].owner \in DOMAIN user_cap
                  /\ user_cap[subs[s].owner] > 0
                  /\ (IF subs[s].owner \in DOMAIN user_spent
                        THEN user_spent[subs[s].owner] ELSE 0) + amt
                       > user_cap[subs[s].owner]

GuardError == <<"ProtocolPaused", "NotFound", "TerminalState",
                "DuplicateCycle", "CooldownActive", "InvalidApproval",
                "SubscriptionCapExceeded", "GlobalCapExceeded">>

Rejecting(s, a, amt, cd, cy) == {i \in 1..8 : Rejects(i, s, a, amt, cd, cy)}

Earliest(S) == CHOOSE i \in S : \A j \in S : i <= j

\* C1: in every reachable state and for every argument tuple, a renew call
\* that some guard rejects aborts with the error of the earliest rejecting
\* guard in the order pause, subscription exists, state != Failed, duplicate
\* cycle, cooldown, approval, per-subscription cap, global cap; a call no
\* guard rejects returns.
C1_GuardOrder ==
    \A s \in SubIds, a \in ApprovalIds, amt \in Amounts, cd \in Cooldowns,
       cy \in CycleIds, mr \in RetryLimits, ok \in BOOLEAN :
       \A rej \in {Rejecting(s, a, amt, cd, cy)},
          r \in {renew_invoke(store, is_paused, ledger, s, a, amt, mr, cd, cy,
                              ok)} :
          r.outcome = IF rej = {} THEN "ok" ELSE GuardError[Earliest(rej)]

\* A renew call was made while the protocol was paused and the subscription
\* it named did not exist; it aborted with ProtocolPaused.
C1_Witness ==
    /\ last.op = "renew"
    /\ last.outcome = "ProtocolPaused"
    /\ paused
    /\ ~has(subs, last.sub_id)

C2_Frame(r) ==
    /\ r.store.subs = subs
    /\ r.store.cycles = cycles
    /\ r.store.user_cap = user_cap
    /\ r.store.user_spent = user_spent

C2_Calls ==
    \A s \in SubIds, a \in ApprovalIds, amt \in Amounts, cd \in Cooldowns,
       cy \in CycleIds, mr \in RetryLimits, ok \in BOOLEAN :
       \A r \in {renew_invoke(store, is_paused, ledger, s, a, amt, mr, cd, cy,
                              ok)} :
          Rejecting(s, a, amt, cd, cy) # {} => r.outcome # "ok" /\ C2_Frame(r)

C2_Step ==
    last'.op = "renew" /\ last'.outcome # "ok" =>
        /\ subs' = subs
        /\ cycles' = cycles
        /\ user_cap' = user_cap
        /\ user_spent' = user_spent

\* C2: a renew call that one of guards 1-8 rejects aborts and leaves the
\* subscription record (state, failure_count, last_attempt_ledger), the cycle
\* record and the owner's cap and spent as they were; so only a call that
\* passes all eight guards changes failure_count or state.
C2_AbortLeavesState == []C2_Calls /\ [][C2_Step]_vars

\* A renew call aborted at the last guard, the global cap.
C2_Witness ==
    /\ last.op = "renew"
    /\ last.outcome = "GlobalCapExceeded"
    /\ has(subs, last.sub_id)

CapAbort == {"SubscriptionCapExceeded", "GlobalCapExceeded"}

LastKey == <<last.sub_id, last.approval_id>>

C4_SuccessResets ==
    [][last'.op = "renew" /\ last'.outcome = "ok" /\ last'.succeed =>
          /\ last'.ret = TRUE
          /\ subs'[last'.sub_id].state = "Active"
          /\ subs'[last'.sub_id].failure_count = 0
          /\ subs'[last'.sub_id].last_attempt_ledger = ledger
          /\ has(cycles', last'.sub_id)
          /\ cycles'[last'.sub_id] = last'.cycle_id]_vars

\* A renew succeeded on a subscription that had failures before the call.
C4_Witness ==
    /\ last.op = "renew"
    /\ last.outcome = "ok"
    /\ last.succeed
    /\ last.prev_failures > 0
    /\ subs[last.sub_id].failure_count = 0

\* C5: a renew call that passes all guards with succeed = false returns
\* false, increases failure_count by exactly 1, sets last_attempt_ledger to
\* the ledger of the call, and sets state to Failed iff the new
\* failure_count is greater than the call's max_retries, else to Retrying.
C5_FailureCounts ==
    [][last'.op = "renew" /\ last'.outcome = "ok" /\ ~last'.succeed =>
          /\ last'.ret = FALSE
          /\ subs'[last'.sub_id].failure_count
                = subs[last'.sub_id].failure_count + 1
          /\ subs'[last'.sub_id].last_attempt_ledger = ledger
          /\ subs'[last'.sub_id].state
                = IF subs'[last'.sub_id].failure_count > last'.max_retries
                    THEN "Failed" ELSE "Retrying"]_vars

\* A failing renew with max_retries = 1 took failure_count from 1 to 2 and
\* the state to Failed.
C5_Witness ==
    /\ last.op = "renew"
    /\ last.outcome = "ok"
    /\ ~last.succeed
    /\ last.max_retries = 1
    /\ last.prev_failures = 1
    /\ subs[last.sub_id].failure_count = 2
    /\ subs[last.sub_id].state = "Failed"

\* C6: in a run of failing renew calls with the same max_retries = run.n on
\* a subscription that started with failure_count 0, the state is Retrying
\* after each of the first run.n calls that pass the guards and Failed with
\* failure_count = run.n + 1 after call run.n + 1; no further call passes.
C6_BoundedRetry ==
    /\ run.len <= run.n + 1
    /\ run.len >= 1 =>
          /\ has(subs, RunSub)
          /\ subs[RunSub].failure_count = run.len
          /\ subs[RunSub].state
                = IF run.len <= run.n THEN "Retrying" ELSE "Failed"

\* A run with the largest max_retries reached Failed at call max_retries + 1.
C6_Witness ==
    /\ run.n = MaxRunRetries
    /\ run.len = run.n + 1
    /\ subs[RunSub].state = "Failed"

\* C7 as claimed: a subscription record that has been Failed is never
\* Active or Retrying again.
C7_FailedIsTerminal ==
    \A s \in ever_failed : subs[s].state \notin {"Active", "Retrying"}

\* C8 as claimed: once a subscription is Cancelled, renew, cancel_sub,
\* approve_renewal and set_user_cap leave its state Cancelled, and only
\* cancel_sub produces the state Cancelled.
C8_CancelledIsTerminal ==
    [][\A s \in DOMAIN subs :
          /\ (/\ subs[s].state = "Cancelled"
              /\ last'.op \in {"renew", "cancel_sub", "approve_renewal",
                               "set_user_cap"})
                => subs'[s].state = "Cancelled"
          /\ (subs[s].state # "Cancelled" /\ subs'[s].state = "Cancelled")
                => last'.op = "cancel_sub"]_vars

\* C9 as claimed: an approval's used flag, once true, is true in every later
\* state.
C9_UsedNeverResets ==
    [][\A k \in DOMAIN approvals : approvals[k].used => approvals'[k].used]_vars

\* The rejection reasons of a consumption in the documented order:
\* NotFound (4), AlreadyUsed (2), Expired (1), AmountExceeded (3).
ReasonOrder == <<4, 2, 1, 3>>

ReasonApplies(code, s, a, amt) ==
    CASE code = 4 -> <<s, a>> \notin DOMAIN approvals
      [] code = 2 -> <<s, a>> \in DOMAIN approvals /\ approvals[<<s, a>>].used
      [] code = 1 -> /\ <<s, a>> \in DOMAIN approvals
                     /\ ledger > approvals[<<s, a>>].expires_at
      [] code = 3 -> /\ <<s, a>> \in DOMAIN approvals
                     /\ amt > approvals[<<s, a>>].max_spend

FirstReason(s, a, amt) ==
    LET applying == {n \in 1..4 : ReasonApplies(ReasonOrder[n], s, a, amt)}
    IN IF applying = {} THEN 0 ELSE ReasonOrder[Earliest(applying)]

\* C10: a consumption reports the first reason that applies in the order
\* NotFound, AlreadyUsed, Expired, AmountExceeded (none: it succeeds); a used
\* approval is rejected with AlreadyUsed for every amount at every ledger;
\* a rejected consumption leaves the approval store unchanged.
C10_ConsumeOrder ==
    \A s \in SubIds, a \in ApprovalIds, amt \in Amounts :
       LET c == consume_approval(approvals, ledger, s, a, amt) IN
          /\ c.reason = FirstReason(s, a, amt)
          /\ c.ok <=> c.reason = 0
          /\ ~c.ok => c.approvals = approvals
          /\ (has(approvals, <<s, a>>) /\ approvals[<<s, a>>].used)
                => c.reason = 2

\* A renew was rejected with AlreadyUsed on an approval that is also expired
\* and whose max_spend some amount exceeds.
C10_Witness ==
    /\ last.op = "renew"
    /\ last.outcome = "InvalidApproval"
    /\ last.reason = 2
    /\ has(approvals, LastKey)
    /\ approvals[LastKey].used
    /\ ledger > approvals[LastKey].expires_at
    /\ \E amt \in Amounts : amt > approvals[LastKey].max_spend

\* C11 as claimed: once a renew with cycle_id cy has succeeded on a
\* subscription, every later renew on it with cycle_id cy that guards 1-3
\* let through aborts with DuplicateCycle; a cycle_id with no successful
\* renew on the subscription is never rejected with DuplicateCycle.
C11_CycleDedup ==
    \A s \in SubIds, a \in ApprovalIds, amt \in Amounts, cd \in Cooldowns,
       cy \in CycleIds, mr \in RetryLimits, ok \in BOOLEAN :
       \A r \in {renew_invoke(store, is_paused, ledger, s, a, amt, mr, cd, cy,
                              ok)} :
          IF <<s, cy>> \in billed.ever
            THEN {1, 2, 3} \cap Rejecting(s, a, amt, cd, cy) = {}
                    => r.outcome = "DuplicateCycle"
            ELSE r.outcome # "DuplicateCycle"

\* last_attempt_ledger + cooldown_ledgers taken as the mathematical sum
\* exceeds now, for a stored last_attempt_ledger and a ledger below 2^31
\* (where last_attempt_ledger <= now): a cooldown from 2^31 on exceeds every
\* difference now - last_attempt_ledger.
WithinCooldown(s, cd) ==
    cd < 0 \/ ledger - subs[s].last_attempt_ledger < cd

\* C12 as claimed: a renew on a subscription with failure_count = 0 is never
\* aborted with CooldownActive, whatever the cooldown and the ledger; on one
\* with failure_count > 0 that guards 1-4 let through, the call aborts with
\* CooldownActive exactly when now < last_attempt_ledger + cooldown, so a
\* retry with cooldown > 0 at the ledger of the failure aborts with
\* CooldownActive.
C12_CooldownOnlyAfterFailure ==
    \A s \in DOMAIN subs, a \in ApprovalIds, amt \in Amounts,
       cd \in U32Cooldowns, cy \in CycleIds :
       \A r \in {renew_invoke(store, is_paused, ledger, s, a, amt, 0, cd, cy,
                              FALSE)} :
          IF subs[s].failure_count = 0
            THEN r.outcome # "CooldownActive"
            ELSE {1, 2, 3, 4} \cap Rejecting(s, a, amt, 0, cy) = {} =>
                   /\ r.outcome = "CooldownActive" <=> WithinCooldown(s, cd)
                   /\ (cd # 0 /\ ledger = subs[s].last_attempt_ledger)
                         => r.outcome = "CooldownActive"

\* C20 as claimed: over the u32 range of cooldown_ledgers, on a subscription
\* with failure_count > 0 that guards 3-4 let through, guards 3-5 end in
\* CooldownActive exactly when now < last_attempt_ledger + cooldown taken as
\* the mathematical sum and otherwise pass on to guard 6; no renew call ends
\* in an arithmetic trap.
C20_CooldownExact ==
    \A s \in DOMAIN subs, cd \in U32Cooldowns, cy \in CycleIds :
       /\ (/\ subs[s].failure_count > 0
           /\ subs[s].state # "Failed"
           /\ ~(s \in DOMAIN cycles /\ cycles[s] = cy))
             => state_guards(subs[s], cycles, ledger, s, cd, cy)
                  = IF WithinCooldown(s, cd) THEN "CooldownActive" ELSE "pass"
       /\ \A a \in ApprovalIds, amt \in Amounts :
             renew_invoke(store, is_paused, ledger, s, a, amt, 0, cd, cy,
                          FALSE).outcome # "ArithmeticOverflow"

CapOf(s) == IF subs[s].owner \in DOMAIN user_cap
              THEN user_cap[subs[s].owner] ELSE 0

SpentOf(s) == IF subs[s].owner \in DOMAIN user_spent
                THEN user_spent[subs[s].owner] ELSE 0

C13_Calls ==
    \A s \in DOMAIN subs, a \in ApprovalIds, amt \in Amounts, cd \in Cooldowns,
       cy \in CycleIds :
       \A r \in {renew_invoke(store, is_paused, ledger, s, a, amt, 0, cd, cy,
                              TRUE)},
          rej \in {Rejecting(s, a, amt, cd, cy)} :
          /\ subs[s].spending_cap = 0 => r.outcome # "SubscriptionCapExceeded"
          /\ CapOf(s) = 0 => r.outcome # "GlobalCapExceeded"
          /\ (subs[s].spending_cap > 0 /\ rej \cap (1..6) = {}) =>
                /\ amt = subs[s].spending_cap
                      => r.outcome # "SubscriptionCapExceeded"
                /\ amt = subs[s].spending_cap + 1
                      => r.outcome = "SubscriptionCapExceeded"
          /\ (CapOf(s) > 0 /\ rej \cap (1..7) = {}) =>
                /\ SpentOf(s) + amt = CapOf(s) => r.outcome = "ok"
                /\ SpentOf(s) + amt = CapOf(s) + 1
                      => r.outcome = "GlobalCapExceeded"

C13_Step ==
    last'.op = "renew" /\ last'.outcome = "ok" =>
       /\ subs[last'.sub_id].spending_cap > 0
             => last'.amount <= subs[last'.sub_id].spending_cap
       /\ CapOf(last'.sub_id) > 0
             => SpentOf(last'.sub_id) + last'.amount <= CapOf(last'.sub_id)

\* C13: with a per-subscription cap c > 0, a renew of amount c that guards
\* 1-6 let through is not rejected by guard 7 and one of amount c + 1 aborts
\* with SubscriptionCapExceeded; with a global cap g > 0 and spent s, a renew
\* that guards 1-7 let through returns when s + amount = g and aborts with
\* GlobalCapExceeded when s + amount = g + 1; a cap of 0 at either level
\* rejects no amount; a renew that returned was within both caps.
C13_CapBoundaries == []C13_Calls /\ [][C13_Step]_vars

\* A renew of exactly the per-subscription cap succeeded and brought the
\* owner's spent to exactly the global cap.
C13_Witness ==
    /\ last.op = "renew"
    /\ last.outcome = "ok"
    /\ last.succeed
    /\ subs[last.sub_id].spending_cap = last.amount
    /\ CapOf(last.sub_id) > 0
    /\ SpentOf(last.sub_id) = CapOf(last.sub_id)

\* The step is a successful renew on a subscription whose owner has a
\* nonzero cap.
CappedSuccess ==
    /\ last'.op = "renew"
    /\ last'.outcome = "ok"
    /\ last'.succeed
    /\ CapOf(last'.sub_id) > 0

C14_Step ==
    IF CappedSuccess
      THEN user_spent' = set(user_spent, subs[last'.sub_id].owner,
                             SpentOf(last'.sub_id) + last'.amount)
      ELSE user_spent' = user_spent

\* C14: the owner's cumulative spent changes only in a successful renew made
\* while the owner's cap is nonzero, and then grows by exactly the call's
\* amount; every other step (a successful renew while the cap is 0, a
\* failing renew, an aborted renew, any other operation) leaves it
\* unchanged, and an owner who has not been given a cap has no spent.
C14_SpendAccounting ==
    /\ [](\A u \in DOMAIN user_spent : u \in DOMAIN user_cap)
    /\ [][C14_Step]_vars

\* A successful renew under a nonzero cap made the owner's spent equal to
\* its amount.
C14_Witness ==
    /\ last.op = "renew"
    /\ last.outcome = "ok"
    /\ last.succeed
    /\ CapOf(last.sub_id) > 0
    /\ SpentOf(last.sub_id) = last.amount

C15_Calls ==
    \A k \in DOMAIN approvals, amt \in Amounts :
       \A c \in {consume_approval(approvals, ledger, k[1], k[2], amt)} :
          (~approvals[k].used /\ amt <= approvals[k].max_spend) =>
             /\ ledger <= approvals[k].expires_at => c.ok
             /\ ledger = approvals[k].expires_at + 1 =>
                   ~c.ok /\ c.reason = 1

C15_Step ==
    /\ (last'.op = "renew" /\ last'.outcome = "ok")
          => ledger <= approvals[LastKey'].expires_at
    /\ (last'.op = "renew" /\ last'.outcome = "InvalidApproval"
                           /\ last'.reason = 1)
          => ledger > approvals[LastKey'].expires_at

\* C15: a consumption of an unused approval with amount <= max_spend
\* succeeds at every ledger up to and including expires_at and is rejected
\* with Expired (1) at expires_at + 1, the ledger being that of the renew
\* call: a renew that returned ran at a ledger <= expires_at, one rejected
\* as Expired at a ledger > expires_at.
C15_ExpiryInclusive == []C15_Calls /\ [][C15_Step]_vars

\* A renew consumed its approval at the very ledger the approval expires at,
\* after the ledger had advanced.
C15_Witness ==
    /\ last.op = "renew"
    /\ last.outcome = "ok"
    /\ ledger > 0
    /\ approvals[LastKey].used
    /\ approvals[LastKey].expires_at = ledger

C16_Calls ==
    \A s \in SubIds, a \in ApprovalIds, amt \in Amounts, cd \in Cooldowns,
       cy \in CycleIds, ok \in BOOLEAN :
       \A r \in {renew_invoke(store, is_paused, ledger, s, a, amt, 0, cd, cy,
                              ok)} :
          IF paused
            THEN r.outcome = "ProtocolPaused" /\ r.store = store
            ELSE /\ r.outcome # "ProtocolPaused"
                 /\ Rejecting(s, a, amt, cd, cy) = {}
                       => r.outcome = "ok" /\ r.ret = ok

C16_Step ==
    /\ last'.op = "set_paused" => store' = store
    /\ (last'.op = "renew" /\ paused) =>
          last'.outcome = "ProtocolPaused" /\ store' = store

\* C16: while the pause flag is true every renew call aborts with
\* ProtocolPaused and changes no stored record; set_paused changes no
\* subscription, approval, cycle record, cap or spent; while the flag is
\* false no renew aborts with ProtocolPaused and a renew the other guards
\* let through returns its result.
C16_PauseBlocksRenew == []C16_Calls /\ [][C16_Step]_vars

\* A renew on a subscription in state Retrying was aborted by the pause.
C16_Witness ==
    /\ last.op = "renew"
    /\ last.outcome = "ProtocolPaused"
    /\ has(subs, last.sub_id)
    /\ subs[last.sub_id].state = "Retrying"

C17_Calls ==
    \A s \in DOMAIN subs :
       cancel_outcome(s) = IF subs[s].state = "Cancelled"
                             THEN "AlreadyCancelled" ELSE "ok"

C17_Step ==
    last'.op = "cancel_sub" =>
       /\ has(subs, last'.sub_id) => last'.outcome = cancel_outcome(last'.sub_id)
       /\ IF last'.outcome = "ok"
            THEN /\ subs[last'.sub_id].state \in {"Active", "Retrying", "Failed"}
                 /\ store' = [store EXCEPT
                                !.subs = set(@, last'.sub_id,
                                             [@[last'.sub_id] EXCEPT
                                                !.state = "Cancelled"])]
            ELSE store' = store

\* C17: cancel_sub on an existing subscription in state Active, Retrying or
\* Failed sets the state to Cancelled and changes nothing else of the record
\* or of any other store; on a subscription already Cancelled it aborts with
\* AlreadyCancelled and changes nothing.
C17_CancelOnce == []C17_Calls /\ [][C17_Step]_vars

\* A second cancel_sub on a subscription with failures was rejected.
C17_Witness ==
    /\ last.op = "cancel_sub"
    /\ last.outcome = "AlreadyCancelled"
    /\ subs[last.sub_id].state = "Cancelled"
    /\ subs[last.sub_id].failure_count > 0

\* C18 as claimed: failure_count is never negative; it goes from a positive
\* value to 0 only in a successful renew on the subscription; and a stored
\* subscription record is changed only by renew and cancel_sub.
C18_ResetOnlyOnSuccess ==
    [][\A s \in DOMAIN subs :
          /\ subs'[s].failure_count >= 0
          /\ (subs[s].failure_count > 0 /\ subs'[s].failure_count = 0) =>
                /\ last'.op = "renew"
                /\ last'.outcome = "ok"
                /\ last'.succeed
                /\ last'.sub_id = s
          /\ subs'[s] # subs[s] => last'.op \in {"renew", "cancel_sub"}]_vars

C19_Record ==
    \A s \in SubIds :
       IF s \in DOMAIN billed.latest
         THEN s \in DOMAIN cycles /\ cycles[s] = billed.latest[s]
         ELSE s \notin DOMAIN cycles

C19_Step ==
    /\ ~(last'.op = "renew" /\ last'.outcome = "ok" /\ last'.succeed)
          => cycles' = cycles
    /\ (last'.op = "renew" /\ last'.outcome = "ok" /\ ~last'.succeed)
          => ~(/\ last'.sub_id \in DOMAIN cycles'
               /\ cycles'[last'.sub_id] = last'.cycle_id)

\* C19: in every reachable state the cycle record of a subscription id is
\* absent if no renew on it has succeeded and otherwise is the cycle_id of
\* the most recent successful renew on it; a failing renew, an aborted renew
\* and every other operation leave the cycle record unchanged, and after a
\* failing renew the cycle record is not the cycle_id that was presented.
C19_CycleRecord == []C19_Record /\ [][C19_Step]_vars

\* A renew with cycle_id 2 failed after one with cycle_id 1 had succeeded:
\* the cycle record is still 1.
C19_Witness ==
    /\ last.op = "renew"
    /\ last.outcome = "ok"
    /\ ~last.succeed
    /\ last.cycle_id = 2
    /\ has(cycles, last.sub_id)
    /\ cycles[last.sub_id] = 1
    /\ billed.ever = {<<last.sub_id, 1>>}

\* The owner's spent is within the owner's cap, when a cap is configured.
WithinCap(caps, spent, u) ==
    (u \in DOMAIN caps /\ caps[u] > 0) =>
       (IF u \in DOMAIN spent THEN spent[u] ELSE 0) <= caps[u]

\* C21 as claimed: in every reachable state, every owner whose configured
\* global cap is greater than 0 has a cumulative spent of at most that cap.
C21_SpentWithinCap ==
    \A u \in Owners : WithinCap(user_cap, user_spent, u)

\* C21, amended: a step that changes an owner's spent leaves it within the
\* owner's cap, and only a set_user_cap that returns takes an owner from
\* within the cap to above it; while an owner's spent is above the cap no
\* renew on the owner's subscriptions returns.
C21_RenewWithinCap ==
    /\ [][\A u \in Owners :
             /\ user_spent' # user_spent => WithinCap(user_cap', user_spent', u)
             /\ (/\ WithinCap(user_cap, user_spent, u)
                 /\ ~WithinCap(user_cap', user_spent', u))
                   => last'.op = "set_user_cap" /\ last'.outcome = "ok"]_vars
    /\ [](\A s \in DOMAIN subs, a \in ApprovalIds, amt \in Amounts,
             cd \in Cooldowns, cy \in CycleIds, ok \in BOOLEAN :
             ~WithinCap(user_cap, user_spent, subs[s].owner) =>
                renew_invoke(store, is_paused, ledger, s, a, amt, 0, cd, cy,
                             ok).outcome # "ok")

\* set_user_cap has just set a nonzero cap below the spent the owner had
\* accrued under the earlier cap.
C21_Witness ==
    /\ last.op = "set_user_cap"
    /\ last.outcome = "ok"
    /\ \E u \in Owners : ~WithinCap(user_cap, user_spent, u)

C22_Consistent ==
    \A s \in DOMAIN subs :
       /\ subs[s].state \in {"Active", "Retrying", "Failed", "Cancelled"}
       /\ subs[s].state = "Active" => subs[s].failure_count = 0
       /\ subs[s].state \in {"Retrying", "Failed"}
             => subs[s].failure_count >= 1

C22_Step ==
    \A s \in DOMAIN subs' :
       (s \notin DOMAIN subs \/ subs'[s] # subs[s]) =>
          \/ subs'[s].state = "Cancelled"
          \/ subs'[s].state = "Active" <=> subs'[s].failure_count = 0

\* C22: in every reachable state every subscription whose state is not
\* Cancelled is Active if and only if its failure_count is 0 (Retrying and
\* Failed have failure_count >= 1), and every step that stores a record
\* stores one that is Cancelled or satisfies this.
C22_ActiveIffNoFailures == []C22_Consistent /\ [][C22_Step]_vars

\* A failing renew within its retry limit left a subscription Retrying with
\* one failure.
C22_Witness ==
    /\ last.op = "renew"
    /\ last.outcome = "ok"
    /\ ~last.succeed
    /\ last.max_retries = 1
    /\ subs[last.sub_id].state = "Retrying"
    /\ subs[last.sub_id].failure_count = 1

====
